---- MODULE Spec2Model ----
(***************************************************************************)
(* Model of src/hologres_mcp_server/server.py: the two request handlers    *)
(* read_resource and call_tool, their try/except/finally control flow, the *)
(* connection and cursor they open through psycopg2, and the text they     *)
(* render.  A handler is an `async def` without any await, so the event    *)
(* loop runs one handler body at a time: the model has one request in      *)
(* flight, split into the steps at which it touches the database.          *)
(***************************************************************************)
EXTENDS Integers, Sequences, FiniteSets, TLC

(* ------------------------------ bounds --------------------------------- *)
\* longest resource path, in segments, that a request may carry
MaxSegs == 4
\* most rows the database returns for one statement
MaxRows == 1

(* --------------------------- Python values ----------------------------- *)
None == [t |-> "none"]
S(x) == [t |-> "str", v |-> x]
I(n) == [t |-> "int", v |-> n]

\* str(val)
Str(val) ==
  CASE val.t = "none" -> "None"
    [] val.t = "int"  -> ToString(val.v)
    [] val.t = "str"  -> val.v

\* bool(val) for the values the handlers test: None and "" are falsy
Truthy(val) == val # None /\ val # S("")

\* sep.join(strs)
RECURSIVE StrJoin(_, _)
StrJoin(sep, strs) ==
  IF strs = <<>> THEN ""
  ELSE IF Len(strs) = 1 THEN Head(strs)
  ELSE Head(strs) \o sep \o StrJoin(sep, Tail(strs))

\* int(s): the decimal literals of the model parse, anything else raises
\* ValueError
PyInt(s) ==
  CASE s = "10" -> [ok |-> TRUE, v |-> 10]
    [] s = "0"  -> [ok |-> TRUE, v |-> 0]
    [] s = "-5" -> [ok |-> TRUE, v |-> 0 - 5]
    [] OTHER    -> [ok |-> FALSE]

(* ------------------------- resource identifiers ------------------------ *)
\* A URI string is a sequence of tokens: the scheme prefix, then words and
\* "/" separators.  UriStr is the string itself.
RECURSIVE UriStr(_)
UriStr(uri) == IF uri = <<>> THEN "" ELSE Head(uri) \o UriStr(Tail(uri))

\* uri_str.startswith(prefix)
StartsWith(uri, prefix) == uri # <<>> /\ Head(uri) = prefix

\* uri_str[len(prefix):].split('/')
RECURSIVE Split(_)
Split(toks) ==
  IF toks = <<>> THEN <<"">>
  ELSE LET rest == Split(Tail(toks)) IN
       IF Head(toks) = "/" THEN <<"">> \o rest
       ELSE <<Head(toks) \o Head(rest)>> \o Tail(rest)

\* the identifier a client writes for a scheme prefix and a list of segments
RECURSIVE PathToks(_)
PathToks(segs) ==
  IF segs = <<>> THEN <<>>
  ELSE (IF Head(segs) = "" THEN <<>> ELSE <<Head(segs)>>)
       \o (IF Len(segs) > 1 THEN <<"/">> \o PathToks(Tail(segs)) ELSE <<>>)

MkUri(prefix, segs) == <<prefix>> \o PathToks(segs)

HoloSegs == {"schemas", "tables", "ddl", "statistic", "pub"}
SysSegs  == {"missing_stats_tables", "stat_activity", "query_log", "latest",
             "user", "application", "", "10", "-5"}
FooSegs  == {"bar"}

SeqsUpTo(set, n) == UNION {[1..k -> set] : k \in 1..n}

Uris ==
  {MkUri("hologres:///", p) : p \in SeqsUpTo(HoloSegs, MaxSegs)}
  \cup {MkUri("system:///", p) : p \in SeqsUpTo(SysSegs, MaxSegs)}
  \cup {MkUri("foo:///", p) : p \in SeqsUpTo(FooSegs, MaxSegs)}


(* ------------------------------ requests ------------------------------- *)
ToolNames == {"execute_sql", "analyze_table", "get_query_plan",
              "get_execution_plan", "drop_table"}
Queries  == {"", "SELECT 1", "SELEC 1", "CREATE TABLE t (x int)"}
Idents   == {"", "public"}

\* the argument dicts of the model: every subset of the three keys
ArgDicts ==
  UNION {[keys -> [t : {"str"}, v : Queries \cup Idents]] :
           keys \in SUBSET {"query", "schema", "table"}}

WellTyped(arguments) ==
  /\ "query" \in DOMAIN arguments => arguments["query"].v \in Queries
  /\ "schema" \in DOMAIN arguments => arguments["schema"].v \in Idents
  /\ "table" \in DOMAIN arguments => arguments["table"].v \in Idents

Arguments == {a \in ArgDicts : WellTyped(a)}

\* arguments.get(key)
Get(arguments, key) ==
  IF key \in DOMAIN arguments THEN arguments[key] ELSE None

EnvVars == {"HOLOGRES_USER", "HOLOGRES_PASSWORD", "HOLOGRES_DATABASE"}
\* the environments of the model: complete, or the password unset
Envs == {EnvVars, EnvVars \ {"HOLOGRES_PASSWORD"}}

(* ------------------------------ variables ------------------------------ *)
VARIABLES
  env,       \* the environment variables that are set to a non-empty value
  pc,        \* position of the request in flight
  req,       \* the request in flight
  conn,      \* the handler's local `conn`: "unbound", "open" or "closed"
  cursor,    \* the handler's local `cursor`: "unbound", "open" or "closed"
  pending,   \* the return value or exception in flight when `finally` runs
  result,    \* what the handler handed back to its caller
  opened,    \* connections the request has opened
  closed,    \* conn.close() calls the request has made
  executed,  \* statements handed to cursor.execute, with their outcome
  fetched,   \* what fetchall / fetchone handed back
  faults     \* the driver calls that failed during the request

vars == <<env, pc, req, conn, cursor, pending, result, opened, closed,
          executed, fetched, faults>>

NoRows == [t |-> "none"]

NoReq    == [kind |-> "none"]
NoResult == [kind |-> "none"]

Return(text)     == [kind |-> "text", text |-> text]
Raise(class, msg) == [kind |-> "error", class |-> class, msg |-> msg]

(* --------------------------- psycopg2 driver --------------------------- *)
\* cursor.description of a statement that returns rows
Cols == <<"c1", "c2">>
Values == {None, I(7)}
Rows == [1..Len(Cols) -> Values]
\* cursor.fetchall()
RowSets == UNION {[1..k -> Rows] : k \in 0..MaxRows}
\* cursor.fetchall() of the two listing statements: one text column
NameRowSets == UNION {[1..k -> {<<S("pub")>>, <<S("sales")>>}] : k \in 0..MaxRows}
\* cursor.fetchone() of the DDL statement
DdlRows == {None, [t |-> "row", v |-> <<None>>], [t |-> "row", v |-> <<S("")>>],
            [t |-> "row", v |-> <<S("CREATE TABLE pub.pub (x int);")>>]}

\* the exception classes below psycopg2.Error
PsycopgErrors == {"OperationalError", "InterfaceError", "ProgrammingError"}
ConnectError == Raise("OperationalError", "could not connect to server")
CursorError  == Raise("InterfaceError", "connection already closed")
ExecuteError == Raise("ProgrammingError", "syntax error at or near \"SELEC\"")

\* statements the database rejects, and statements that yield no result set
\* (cursor.description is None after them)
Malformed(sql) == sql \in {"SELEC 1", "EXPLAIN SELEC 1", "EXPLAIN ANALYZE SELEC 1"}
NoResultSet(sql) == sql = "CREATE TABLE t (x int)"

(* ------------------------- get_db_config ------------------------------- *)
GetDbConfig(e) ==
  IF EnvVars \subseteq e THEN [ok |-> TRUE]
  ELSE [ok |-> FALSE, exc |-> Raise("ValueError", "Missing required database configuration")]

(* ------------------------ read_resource: routing ----------------------- *)
Execute(route, sql, params, who) ==
  [act |-> "execute", route |-> route, stmt |-> [sql |-> sql, params |-> params],
   who |-> who]
Soft(text) == [act |-> "return", text |-> text]
Fail(class, msg) == [act |-> "raise", class |-> class, msg |-> msg]

\* the hologres:/// branch
RouteHologres(path_parts, uri_str) ==
  IF path_parts[1] = "schemas"
  THEN Execute("schemas", "SELECT table_schema FROM information_schema.tables",
               <<>>, "")
  ELSE IF Len(path_parts) = 2 /\ path_parts[2] = "tables"
  THEN Execute("tables", "SELECT table_name FROM information_schema.tables",
               <<S(path_parts[1])>>, path_parts[1])
  ELSE IF Len(path_parts) = 3 /\ path_parts[3] = "ddl"
  THEN Execute("ddl",
               "SELECT hg_dump_script('" \o path_parts[1] \o "." \o path_parts[2] \o "')",
               <<>>, path_parts[1] \o "." \o path_parts[2])
  ELSE IF Len(path_parts) = 3 /\ path_parts[3] = "statistic"
  THEN Execute("statistic", "SELECT ... FROM hologres_statistic.hg_table_statistic",
               <<S(path_parts[1]), S(path_parts[2])>>,
               path_parts[1] \o "." \o path_parts[2])
  ELSE Fail("ValueError", "Invalid resource URI format: " \o uri_str)

\* one query_log branch: int(limit), the positivity test, then the statement
QueryLog(limit, sql, params, interpolate) ==
  LET n == PyInt(limit) IN
  IF ~n.ok THEN Soft("Invalid row limits format, must be an integer")
  ELSE IF n.v <= 0 THEN Soft("Row limits must be a positive integer")
  ELSE IF interpolate
       THEN Execute("query_log", sql \o ToString(n.v), params, "")
       ELSE Execute("query_log", sql, params \o <<I(n.v)>>, "")

\* the system:/// branch
RouteSystem(path_parts, uri_str) ==
  IF path_parts[1] = "missing_stats_tables"
  THEN Execute("missing_stats_tables",
               "SELECT * FROM hologres_statistic.hg_stats_missing", <<>>, "")
  ELSE IF path_parts[1] = "stat_activity"
  THEN Execute("stat_activity", "SELECT * FROM hg_stat_activity ORDER BY pid", <<>>, "")
  ELSE IF path_parts[1] = "query_log"
  THEN IF Len(path_parts) < 2
       THEN Fail("IndexError", "list index out of range")
       ELSE IF path_parts[2] = "latest" /\ Len(path_parts) = 3
       THEN QueryLog(path_parts[3],
                     "SELECT * FROM hologres.hg_query_log ORDER BY query_start DESC LIMIT ",
                     <<>>, TRUE)
       ELSE IF path_parts[2] = "user" /\ Len(path_parts) = 4
       THEN IF path_parts[3] = "" THEN Soft("Username cannot be empty")
            ELSE QueryLog(path_parts[4],
                          "SELECT * FROM hologres.hg_query_log WHERE usename = %s ORDER BY query_start DESC LIMIT %s",
                          <<S(path_parts[3])>>, FALSE)
       ELSE IF path_parts[2] = "application" /\ Len(path_parts) = 4
       THEN IF path_parts[3] = "" THEN Soft("Application name cannot be empty")
            ELSE QueryLog(path_parts[4],
                          "SELECT * FROM hologres.hg_query_log WHERE application_name = %s ORDER BY query_start DESC LIMIT %s",
                          <<S(path_parts[3])>>, FALSE)
       ELSE Fail("ValueError", "Invalid query log URI format: " \o uri_str)
  ELSE Fail("ValueError", "Invalid resource URI format: " \o uri_str)

\* a scheme test that lets every identifier through
SchemeOK_Always(uri) == TRUE

\* the test on the scheme prefix before the try block
SchemeOK(uri) == StartsWith(uri, "hologres:///") \/ StartsWith(uri, "system:///")

\* the body of the try block after the cursor exists
Route(uri) ==
  IF StartsWith(uri, "hologres:///") THEN RouteHologres(Split(Tail(uri)), UriStr(uri))
  ELSE IF StartsWith(uri, "system:///") THEN RouteSystem(Split(Tail(uri)), UriStr(uri))
  ELSE Fail("ValueError", "Invalid resource URI format: " \o UriStr(uri))

(* ----------------------- read_resource: rendering ---------------------- *)
\* str(val) if val is not None else "NULL"
NullStr(val) == IF val # None THEN Str(val) ELSE "NULL"

TabLine(row) == StrJoin("\t", [i \in 1..Len(row) |-> Str(row[i])])
TabLineNull(row) == StrJoin("\t", [i \in 1..Len(row) |-> NullStr(row[i])])
FirstCol(row) == row[1].v

StatisticHeaders == <<"Schema", "Table", "Schema Version", "Stats Version",
                      "Total Rows", "Analyze Time">>

\* what fetchall / fetchone can hand back on a route
Fetched(route) ==
  IF route \in {"schemas", "tables"} THEN NameRowSets
  ELSE IF route = "ddl" THEN DdlRows
  ELSE RowSets

EmptyText(d) ==
  CASE d.route = "statistic" -> "No statistics found for " \o d.who
    [] d.route = "missing_stats_tables" -> "No tables found with missing statistics"
    [] d.route = "stat_activity" -> "No queries found with current running status"
    [] d.route = "query_log" -> "No query logs found"

\* the text a route returns for the rows it fetched
Render(d, rows) ==
  IF d.route \in {"schemas", "tables"} THEN StrJoin("\n", [i \in 1..Len(rows) |-> FirstCol(rows[i])])
  ELSE IF d.route = "ddl"
  THEN IF rows # None /\ Truthy(rows.v[1]) THEN rows.v[1].v
       ELSE "No DDL found for " \o d.who
  ELSE IF rows = <<>> THEN EmptyText(d)
  ELSE IF d.route = "statistic"
  THEN StrJoin("\n", <<StrJoin("\t", StatisticHeaders)>> \o [i \in 1..Len(rows) |-> TabLine(rows[i])])
  ELSE StrJoin("\n", <<StrJoin("\t", Cols)>> \o [i \in 1..Len(rows) |-> TabLineNull(rows[i])])

\* except Error as e: raise RuntimeError(f"Database error: {str(e)}")
ReadResourceExcept(exc) ==
  IF exc.class \in PsycopgErrors THEN Raise("RuntimeError", "Database error: " \o exc.msg)
  ELSE exc

UnboundCursor == Raise("UnboundLocalError",
                       "local variable 'cursor' referenced before assignment")

(* ------------------------ call_tool: validation ------------------------ *)
Valid(query, who) == [ok |-> TRUE, query |-> query, who |-> who]
Invalid(msg) == [ok |-> FALSE, exc |-> Raise("ValueError", msg)]

\* a validation that tests nothing and takes the query as it comes
ValidateTool_NoRequired(name, arguments) ==
  Valid(Str(Get(arguments, "query")), "")

\* the if/elif chain on the tool name, before the try block
ValidateTool(name, arguments) ==
  IF name = "execute_sql"
  THEN IF ~Truthy(Get(arguments, "query")) THEN Invalid("Query is required")
       ELSE Valid(Get(arguments, "query").v, "")
  ELSE IF name = "analyze_table"
  THEN IF ~(Truthy(Get(arguments, "schema")) /\ Truthy(Get(arguments, "table")))
       THEN Invalid("Schema and table are required")
       ELSE Valid("ANALYZE " \o Get(arguments, "schema").v \o "."
                    \o Get(arguments, "table").v,
                  Get(arguments, "schema").v \o "." \o Get(arguments, "table").v)
  ELSE IF name = "get_query_plan"
  THEN IF ~Truthy(Get(arguments, "query")) THEN Invalid("Query is required")
       ELSE Valid("EXPLAIN " \o Get(arguments, "query").v, "")
  ELSE IF name = "get_execution_plan"
  THEN IF ~Truthy(Get(arguments, "query")) THEN Invalid("Query is required")
       ELSE Valid("EXPLAIN ANALYZE " \o Get(arguments, "query").v, "")
  ELSE Invalid("Unknown tool: " \o name)

CommaLine(row) == StrJoin(",", [i \in 1..Len(row) |-> Str(row[i])])

\* the text of a tool result with rows
RenderTool(columns, rows) ==
  StrJoin("\n", <<StrJoin(",", columns)>> \o [i \in 1..Len(rows) |-> CommaLine(rows[i])])

\* except Exception as e: return [TextContent(text=f"Error executing query: {str(e)}")]
CallToolExcept(exc) == Return("Error executing query: " \o exc.msg)

\* [desc[0] for desc in cursor.description] with cursor.description None
NotIterable == Raise("TypeError", "'NoneType' object is not iterable")

(* ------------------------------- actions -------------------------------- *)
Init ==
  /\ env \in Envs
  /\ pc = "idle"
  /\ req = NoReq
  /\ conn = "unbound"
  /\ cursor = "unbound"
  /\ pending = NoResult
  /\ result = NoResult
  /\ opened = 0
  /\ closed = 0
  /\ executed = <<>>
  /\ fetched = NoRows
  /\ faults = {}

\* read_resource up to the try block: configuration, then the scheme test
ReadResource ==
  /\ pc = "idle"
  /\ \E uri \in Uris :
       /\ req' = [kind |-> "read_resource", uri |-> uri]
       /\ IF ~GetDbConfig(env).ok
          THEN pc' = "done" /\ result' = GetDbConfig(env).exc
          ELSE IF ~SchemeOK(uri)
          THEN /\ pc' = "done"
               /\ result' = Raise("ValueError", "Invalid URI scheme: " \o UriStr(uri))
          ELSE pc' = "rr_connect" /\ result' = result
  /\ UNCHANGED <<env, conn, cursor, pending, opened, closed, executed, fetched, faults>>

\* conn = psycopg2.connect(**config); conn.autocommit = True
RR_Connect ==
  /\ pc = "rr_connect"
  /\ \/ /\ conn' = "open"
        /\ opened' = opened + 1
        /\ pc' = "rr_cursor"
        /\ UNCHANGED <<pending, faults>>
     \/ /\ faults' = faults \cup {"connect"}
        /\ pending' = ReadResourceExcept(ConnectError)
        /\ pc' = "rr_finally"
        /\ UNCHANGED <<conn, opened>>
  /\ UNCHANGED <<env, req, cursor, result, closed, executed, fetched>>

\* cursor = conn.cursor()
RR_Cursor ==
  /\ pc = "rr_cursor"
  /\ \/ /\ cursor' = "open"
        /\ pc' = "rr_route"
        /\ UNCHANGED <<pending, faults>>
     \/ /\ faults' = faults \cup {"cursor"}
        /\ pending' = ReadResourceExcept(CursorError)
        /\ pc' = "rr_finally"
        /\ UNCHANGED cursor
  /\ UNCHANGED <<env, req, conn, result, opened, closed, executed, fetched>>

\* the routing, the statement and the rendering inside the try block
RR_Route ==
  /\ pc = "rr_route"
  /\ LET d == Route(req.uri) IN
       \/ /\ d.act = "raise"
          /\ pending' = ReadResourceExcept(Raise(d.class, d.msg))
          /\ UNCHANGED <<executed, fetched, faults>>
       \/ /\ d.act = "return"
          /\ pending' = Return(d.text)
          /\ UNCHANGED <<executed, fetched, faults>>
       \/ /\ d.act = "execute"
          /\ executed' = Append(executed, [stmt |-> d.stmt, ok |-> FALSE])
          /\ faults' = faults \cup {"execute"}
          /\ pending' = ReadResourceExcept(ExecuteError)
          /\ UNCHANGED fetched
       \/ /\ d.act = "execute"
          /\ executed' = Append(executed, [stmt |-> d.stmt, ok |-> TRUE])
          /\ \E rows \in Fetched(d.route) :
               /\ fetched' = [t |-> "rows", v |-> rows]
               /\ pending' = Return(Render(d, rows))
          /\ UNCHANGED faults
  /\ pc' = "rr_finally"
  /\ UNCHANGED <<env, req, conn, cursor, result, opened, closed>>

\* finally: cursor.close(); conn.close()
RR_Finally ==
  /\ pc = "rr_finally"
  /\ IF cursor = "unbound"
     THEN /\ result' = UnboundCursor
          /\ UNCHANGED <<conn, cursor, closed>>
     ELSE /\ cursor' = "closed"
          /\ conn' = "closed"
          /\ closed' = closed + 1
          /\ result' = pending
  /\ pc' = "done"
  /\ UNCHANGED <<env, req, pending, opened, executed, fetched, faults>>

\* call_tool up to the try block: configuration, then the validation
CallTool ==
  /\ pc = "idle"
  /\ \E name \in ToolNames, arguments \in Arguments :
       /\ req' = [kind |-> "call_tool", name |-> name, arguments |-> arguments]
       /\ IF ~GetDbConfig(env).ok
          THEN pc' = "done" /\ result' = GetDbConfig(env).exc
          ELSE IF ~ValidateTool(name, arguments).ok
          THEN pc' = "done" /\ result' = ValidateTool(name, arguments).exc
          ELSE pc' = "ct_connect" /\ result' = result
  /\ UNCHANGED <<env, conn, cursor, pending, opened, closed, executed, fetched, faults>>

\* conn = psycopg2.connect(**config); conn.autocommit = True
CT_Connect ==
  /\ pc = "ct_connect"
  /\ \/ /\ conn' = "open"
        /\ opened' = opened + 1
        /\ pc' = "ct_cursor"
        /\ UNCHANGED <<pending, faults>>
     \/ /\ faults' = faults \cup {"connect"}
        /\ pending' = CallToolExcept(ConnectError)
        /\ pc' = "ct_finally"
        /\ UNCHANGED <<conn, opened>>
  /\ UNCHANGED <<env, req, cursor, result, closed, executed, fetched>>

\* cursor = conn.cursor()
CT_Cursor ==
  /\ pc = "ct_cursor"
  /\ \/ /\ cursor' = "open"
        /\ pc' = "ct_execute"
        /\ UNCHANGED <<pending, faults>>
     \/ /\ faults' = faults \cup {"cursor"}
        /\ pending' = CallToolExcept(CursorError)
        /\ pc' = "ct_finally"
        /\ UNCHANGED cursor
  /\ UNCHANGED <<env, req, conn, result, opened, closed, executed, fetched>>

\* cursor.execute(query) and the shaping of the result
CT_Execute ==
  /\ pc = "ct_execute"
  /\ LET v == ValidateTool(req.name, req.arguments)
         stmt == [sql |-> v.query, params |-> <<>>] IN
       \/ /\ executed' = Append(executed, [stmt |-> stmt, ok |-> FALSE])
          /\ faults' = faults \cup {"execute"}
          /\ pending' = CallToolExcept(ExecuteError)
          /\ UNCHANGED fetched
       \/ /\ ~Malformed(v.query)
          /\ executed' = Append(executed, [stmt |-> stmt, ok |-> TRUE])
          /\ UNCHANGED faults
          /\ IF req.name = "analyze_table"
             THEN /\ pending' = Return("Successfully analyzed table " \o v.who)
                  /\ UNCHANGED fetched
             ELSE IF NoResultSet(v.query)
             THEN /\ pending' = CallToolExcept(NotIterable)
                  /\ UNCHANGED fetched
             ELSE \E rows \in RowSets :
                    /\ fetched' = [t |-> "rows", v |-> rows]
                    /\ pending' = Return(RenderTool(Cols, rows))
  /\ pc' = "ct_finally"
  /\ UNCHANGED <<env, req, conn, cursor, result, opened, closed>>

\* finally: cursor.close(); conn.close()
CT_Finally ==
  /\ pc = "ct_finally"
  /\ IF cursor = "unbound"
     THEN /\ result' = UnboundCursor
          /\ UNCHANGED <<conn, cursor, closed>>
     ELSE /\ cursor' = "closed"
          /\ conn' = "closed"
          /\ closed' = closed + 1
          /\ result' = pending
  /\ pc' = "done"
  /\ UNCHANGED <<env, req, pending, opened, executed, fetched, faults>>

\* the transport takes the response; the handler's locals go out of scope
Respond ==
  /\ pc = "done"
  /\ pc' = "idle"
  /\ req' = NoReq
  /\ conn' = "unbound"
  /\ cursor' = "unbound"
  /\ pending' = NoResult
  /\ result' = NoResult
  /\ opened' = 0
  /\ closed' = 0
  /\ executed' = <<>>
  /\ fetched' = NoRows
  /\ faults' = {}
  /\ UNCHANGED env

Next ==
  \/ ReadResource
  \/ RR_Connect
  \/ RR_Cursor
  \/ RR_Route
  \/ RR_Finally
  \/ CallTool
  \/ CT_Connect
  \/ CT_Cursor
  \/ CT_Execute
  \/ CT_Finally
  \/ Respond

Spec == Init /\ [][Next]_vars

(* ------------------------------- claims --------------------------------- *)
ConfigOK == GetDbConfig(env).ok
IsRead == req.kind = "read_resource"
IsCall == req.kind = "call_tool"
Done == pc = "done"

\* the scheme of the identifier and its path segments, as a client reads them
Scheme == Head(req.uri)
Path == Split(Tail(req.uri))
KnownScheme == Scheme \in {"hologres:///", "system:///"}

\* C1: when a read_resource or call_tool request returns or fails, every
\* connection it opened has been closed exactly once: none is left open.
C1_EveryConnectionClosed ==
  Done => (closed = opened /\ conn # "open")

\* C2: with a valid configuration, a call_tool request never raises: it hands
\* back text, and after a failure (bad arguments, unknown tool, connect or
\* execute failure) the text describes the error.
C2_CallToolNeverRaises ==
  (Done /\ IsCall /\ ConfigOK) => result.kind = "text"

\* the row limit of a query_log read is unusable: no integer, or one <= 0
BadLimit(limit) == ~PyInt(limit).ok \/ PyInt(limit).v <= 0

\* the query_log reads the soft validation answers
SoftCase ==
  /\ IsRead /\ ConfigOK /\ Scheme = "system:///"
  /\ Path[1] = "query_log"
  /\ \/ /\ Len(Path) = 3 /\ Path[2] = "latest" /\ BadLimit(Path[3])
     \/ /\ Len(Path) = 4 /\ Path[2] \in {"user", "application"}
        /\ (Path[3] = "" \/ BadLimit(Path[4]))

SoftTexts == {"Row limits must be a positive integer",
              "Invalid row limits format, must be an integer",
              "Username cannot be empty", "Application name cannot be empty"}

\* C3: a query_log read with an unusable row limit or an empty user or
\* application name opens no connection and executes no statement at any
\* point, and ends by returning the validation text.
C3_SoftValidationWithoutDatabase ==
  SoftCase => /\ opened = 0
              /\ executed = <<>>
              /\ Done => (result.kind = "text" /\ result.text \in SoftTexts)

\* C4: with a valid configuration, a read of an identifier whose scheme is
\* neither hologres:/// nor system:/// fails with the invalid-scheme
\* ValueError, returns no text and opens no connection.
C4_UnknownSchemeFails ==
  (IsRead /\ ConfigOK /\ ~KnownScheme) =>
    /\ Done
    /\ result = Raise("ValueError", "Invalid URI scheme: " \o UriStr(req.uri))
    /\ opened = 0
    /\ conn = "unbound"
    /\ executed = <<>>

C4_Witness ==
  /\ Done /\ IsRead /\ ConfigOK
  /\ req.uri = <<"foo:///", "bar">>
  /\ result.kind = "error"

\* the nine route shapes of the routing table
RouteShape ==
  \/ /\ Scheme = "hologres:///"
     /\ \/ Path = <<"schemas">>
        \/ Len(Path) = 2 /\ Path[2] = "tables"
        \/ Len(Path) = 3 /\ Path[3] \in {"ddl", "statistic"}
  \/ /\ Scheme = "system:///"
     /\ \/ Path = <<"missing_stats_tables">>
        \/ Path = <<"stat_activity">>
        \/ Len(Path) = 3 /\ Path[1] = "query_log" /\ Path[2] = "latest"
        \/ Len(Path) = 4 /\ Path[1] = "query_log"
           /\ Path[2] \in {"user", "application"}

\* C5: a read of a hologres or system identifier whose path has none of the
\* nine route shapes fails with the invalid-resource error (a ValueError,
\* as for an unknown scheme) and returns no text.  Stated for the requests
\* during which no driver call failed.
C5_NoRouteFailsInvalidResource ==
  (Done /\ IsRead /\ ConfigOK /\ KnownScheme /\ ~RouteShape /\ faults = {}) =>
    (result.kind = "error" /\ result.class = "ValueError")

\* C6: a read during which connect or execute failed fails with the
\* RuntimeError that wraps the driver's message, and nothing was retried.
C6_DatabaseErrorPropagates ==
  (Done /\ IsRead /\ faults \cap {"connect", "execute"} # {}) =>
    /\ result.kind = "error"
    /\ result.class = "RuntimeError"
    /\ result.msg \in {"Database error: " \o ConnectError.msg,
                       "Database error: " \o ExecuteError.msg}
    /\ opened <= 1
    /\ Len(executed) <= 1

\* the tools of the catalogue and the arguments each requires
KnownTools == {"execute_sql", "analyze_table", "get_query_plan", "get_execution_plan"}
Required(name) == IF name = "analyze_table" THEN {"schema", "table"} ELSE {"query"}
MissingRequired ==
  /\ req.name \in KnownTools
  /\ \E k \in Required(req.name) :
       k \notin DOMAIN req.arguments \/ req.arguments[k].v = ""

\* C7: with a valid configuration, a call_tool request with a missing or
\* empty required argument fails with the validation ValueError, one with
\* an unknown tool name fails with the unknown-tool ValueError, and in both
\* cases no connection is opened and no statement executed at any point.
C7_ValidationBeforeConnect ==
  (IsCall /\ ConfigOK /\ (MissingRequired \/ req.name \notin KnownTools)) =>
    /\ Done
    /\ result.kind = "error"
    /\ result.class = "ValueError"
    /\ IF req.name \notin KnownTools
       THEN result.msg = "Unknown tool: " \o req.name
       ELSE IF req.name = "analyze_table"
       THEN result.msg = "Schema and table are required"
       ELSE result.msg = "Query is required"
    /\ opened = 0
    /\ conn = "unbound"
    /\ executed = <<>>

C7_Witness ==
  /\ Done /\ IsCall /\ ConfigOK
  /\ req.name = "analyze_table"
  /\ DOMAIN req.arguments = {"schema"}
  /\ req.arguments["schema"].v = "public"
  /\ result.kind = "error"

\* the statement the request executed
Sql == executed[1].stmt.sql
Params == executed[1].stmt.params

\* C8: the schema listing runs only for the path ["schemas"], every path
\* [schema, "tables"] runs the table listing for that schema, and the
\* missing_stats_tables and stat_activity statements run only for
\* one-segment paths.
C8_RoutesMatchExactShape ==
  (IsRead /\ KnownScheme /\ executed # <<>>) =>
    /\ Sql = "SELECT table_schema FROM information_schema.tables"
         => Path = <<"schemas">>
    /\ (Scheme = "hologres:///" /\ Len(Path) = 2 /\ Path[2] = "tables")
         => /\ Sql = "SELECT table_name FROM information_schema.tables"
            /\ Params = <<S(Path[1])>>
    /\ Sql \in {"SELECT * FROM hologres_statistic.hg_stats_missing",
                "SELECT * FROM hg_stat_activity ORDER BY pid"}
         => Len(Path) = 1

\* the tab-separated text of a header and rows, nulls written as NULL
TabText(header, rows) ==
  StrJoin("\n",
    <<StrJoin("\t", header)>> \o
    [i \in 1..Len(rows) |->
       StrJoin("\t", [j \in 1..Len(rows[i]) |->
                        IF rows[i][j] = None THEN "NULL" ELSE Str(rows[i][j])])])

TabRoutes == {"statistic", "missing_stats_tables", "stat_activity", "query_log"}

\* C9: a read that renders a non-empty row set on the statistic,
\* missing_stats_tables, stat_activity or query_log routes returns the header
\* line and one tab-joined line per row, every null written as NULL.
C9_NullRenderedAsNULL ==
  (Done /\ IsRead /\ result.kind = "text" /\ executed # <<>>
     /\ Route(req.uri).route \in TabRoutes
     /\ fetched.t = "rows" /\ fetched.v # <<>>) =>
    result.text =
      TabText(IF Route(req.uri).route = "statistic" THEN StatisticHeaders ELSE Cols,
              fetched.v)

\* the texts that begin with "Error executing query:"
ErrorTexts ==
  {"Error executing query: " \o m :
     m \in {ConnectError.msg, CursorError.msg, ExecuteError.msg, NotIterable.msg}}

\* C10: execute_sql, get_query_plan and get_execution_plan answer with a text
\* that begins with "Error executing query:" only if connect or execute
\* failed.
C10_ErrorOnlyOnFailure ==
  (Done /\ IsCall /\ req.name \in {"execute_sql", "get_query_plan", "get_execution_plan"}
     /\ result.kind = "text" /\ result.text \in ErrorTexts) =>
    faults \cap {"connect", "execute"} # {}

====
